---- MODULE Spec2Model ----
(***************************************************************************)
(* Model of pagina.py: the Streamlit chat page of the Instituto 13 de      *)
(* Julio bot.  One session is modelled.  Every script run executes main()  *)
(* from the top; the run that carries a submitted prompt blocks in the     *)
(* completion call, so it is split at that call into MainEnvio (up to the  *)
(* request) and Respuesta (the return of the call and the rest of main).   *)
(*                                                                         *)
(* Text is a sequence of one-character strings; the fixed literals of the  *)
(* program (the persona prompt, the messages) are single tokens.  A Python *)
(* value that may be None is a sequence of length 0 (None) or 1 (a value). *)
(***************************************************************************)
EXTENDS Integers, Sequences, FiniteSets, TLC

VARIABLES
    session_state,        \* st.session_state: a function, "mensajes" present or not
    pc,                   \* position of the session: inicio, esperando, pensando, detenido
    archivo,              \* state of conocimiento.json seen by the last run
    secreto,              \* whether st.secrets held GROQ_API_KEY in the last run
    base_de_conocimiento, \* main's local: None or the loaded mapping
    prompt_usuario,       \* main's local: None or the submitted text
    contexto_rag,         \* main's local: None or the retrieved context
    historial_para_api,   \* main's local: None or the payload of the call
    respuesta_bot,        \* main's local: None or the text the call returned
    error_mostrado,       \* st.error was called by generar_respuesta_modelo in this run
    llamadas              \* number of requests the completion endpoint received

vars == <<session_state, pc, archivo, secreto, base_de_conocimiento, prompt_usuario,
          contexto_rag, historial_para_api, respuesta_bot, error_mostrado, llamadas>>

-----------------------------------------------------------------------------
(* Bounds of the model *)

MaxTurnos == 7
MaxQueryLen == 3
MaxKeys == 2

(* Program constant: the slice mensajes_relevantes[-10:] *)
VENTANA == 10

-----------------------------------------------------------------------------
(* Python values *)

None == << >>
Some(v) == << v >>
Val(o) == o[1]

\* Python truthiness of an optional string: None and "" are falsy.
Truthy(o) == o # None /\ Val(o) # << >>

-----------------------------------------------------------------------------
(* Text *)

LowerChar(c) ==
    CASE c = "A" -> "a"
      [] c = "B" -> "b"
      [] c = "I" -> "i"
      [] OTHER -> c

\* str.lower()
Lower(s) == [i \in 1..Len(s) |-> LowerChar(s[i])]

\* the operator `in` on two strings
EsSubcadena(k, s) ==
    \E i \in 0..(Len(s) - Len(k)) : SubSeq(s, i + 1, i + Len(k)) = k

INSTITUTO == <<"i", "n", "s", "t", "i", "t", "u", "t", "o">>
NO_CONTEXTO == <<"No se encontro contexto especifico.">>
KB_NO_DISPONIBLE == <<"Error: la base de conocimientos no esta disponible.">>

\* f"- {content}\n"
Linea(content) == <<"-", " ">> \o content \o <<"\n">>

\* dict.get(key, default) on a mapping kept as a sequence of items
RECURSIVE Get(_, _, _)
Get(kb, key, default) ==
    IF kb = << >> THEN default
    ELSE IF Head(kb).keyword = key THEN Head(kb).content
    ELSE Get(Tail(kb), key, default)

\* the loop with a break after the first matching item
RECURSIVE AcumularPrimero(_, _, _, _)
AcumularPrimero(kb, query_lower, i, acc) ==
    IF i > Len(kb) THEN acc
    ELSE IF EsSubcadena(kb[i].keyword, query_lower)
         THEN acc \o Linea(kb[i].content)
         ELSE AcumularPrimero(kb, query_lower, i + 1, acc)

\* the loop putting each new line in front of the accumulator
RECURSIVE AcumularAlReves(_, _, _, _)
AcumularAlReves(kb, query_lower, i, acc) ==
    IF i > Len(kb) THEN acc
    ELSE AcumularAlReves(kb, query_lower, i + 1,
                         IF EsSubcadena(kb[i].keyword, query_lower)
                         THEN Linea(kb[i].content) \o acc
                         ELSE acc)

\* the for loop of buscar_contexto_relevante from item i on, acc accumulated so far
RECURSIVE Acumular(_, _, _, _)
Acumular(kb, query_lower, i, acc) ==
    IF i > Len(kb) THEN acc
    ELSE Acumular(kb, query_lower, i + 1,
                  IF EsSubcadena(kb[i].keyword, query_lower)
                  THEN acc \o Linea(kb[i].content)
                  ELSE acc)

\* the retriever with the fallback text formatted as a matched line
buscar_contexto_fallback_en_linea(query, base) ==
    IF base = None THEN KB_NO_DISPONIBLE
    ELSE LET query_lower == Lower(query)
             contexto_encontrado == Acumular(Val(base), query_lower, 1, << >>)
         IN  IF contexto_encontrado = << >>
             THEN Linea(Get(Val(base), INSTITUTO, NO_CONTEXTO))
             ELSE contexto_encontrado

\* buscar_contexto_relevante(query, base_de_conocimiento); base is None or Some(kb)
buscar_contexto_relevante(query, base) ==
    IF base = None THEN KB_NO_DISPONIBLE
    ELSE LET query_lower == Lower(query)
             contexto_encontrado == Acumular(Val(base), query_lower, 1, << >>)
         IN  IF contexto_encontrado = << >>
             THEN Get(Val(base), INSTITUTO, NO_CONTEXTO)
             ELSE contexto_encontrado

-----------------------------------------------------------------------------
(* The chat session *)

SALUDO == [role |-> "assistant", content |-> <<"Hola! Soy TecnoBot">>]

\* knowledge file of the session, when it is present and well formed
ArchivoKB ==
    << [keyword |-> <<"a">>, content |-> <<"x">>],
       [keyword |-> INSTITUTO, content |-> <<"y">>] >>

Archivos == {"ok", "no_encontrado", "invalido"}
Prompts == { <<"a">>, <<"B">> }
Respuestas == { << >>, <<"r">> }

\* cargar_base_de_conocimiento()
cargar_base_de_conocimiento(a) == IF a = "ok" THEN Some(ArchivoKB) ELSE None

\* main without the st.stop() of line 102
DetenidoSoloArchivo(a, s) == cargar_base_de_conocimiento(a) = None

\* main stops at line 88 or at line 102
Detenido(a, s) == cargar_base_de_conocimiento(a) = None \/ ~s

\* lines 105-108
Inicializar(ss) ==
    IF "mensajes" \in DOMAIN ss THEN ss ELSE [x \in {"mensajes"} |-> <<SALUDO>>]

\* line 116 followed by a trim of the stored transcript to the window
AgregarUsuarioRecortado(ms, p) ==
    LET t == Append(ms, [role |-> "user", content |-> p])
    IN  IF Len(t) <= VENTANA THEN t ELSE SubSeq(t, Len(t) - VENTANA + 1, Len(t))

\* line 116
AgregarUsuario(ms, p) == Append(ms, [role |-> "user", content |-> p])

\* line 125
SystemPrompt(contexto) == <<"SYSTEM_PROMPT", "Usa el siguiente CONTEXTO RELEVANTE">> \o contexto

NoSystem(msg) == msg.role # "system"

\* s[:n]
UltimosPrimeros(s, n) == IF Len(s) <= n THEN s ELSE SubSeq(s, 1, n)

\* s[-n:]
Ultimos(s, n) == IF Len(s) <= n THEN s ELSE SubSeq(s, Len(s) - n + 1, Len(s))

\* lines 128-132 without the slice
HistorialSinCorte(ms, contexto) ==
    <<[role |-> "system", content |-> SystemPrompt(contexto)]>>
        \o SelectSeq(ms, NoSystem)

\* lines 128-132
Historial(ms, contexto) ==
    <<[role |-> "system", content |-> SystemPrompt(contexto)]>>
        \o Ultimos(SelectSeq(ms, NoSystem), VENTANA)

\* lines 138-140 without the test of line 138
AgregarRespuestaSiempre(ms, r) ==
    Append(ms, [role |-> "assistant",
                content |-> IF r = None THEN <<"None">> ELSE Val(r)])

\* lines 138-140
AgregarRespuesta(ms, r) ==
    IF Truthy(r) THEN Append(ms, [role |-> "assistant", content |-> Val(r)]) ELSE ms

EsUsuario(msg) == msg.role = "user"
Turnos(ss) == IF "mensajes" \in DOMAIN ss THEN Len(SelectSeq(ss.mensajes, EsUsuario)) ELSE 0

EntreEjecuciones == pc \in {"inicio", "esperando", "detenido"}

Init ==
    /\ session_state = << >>
    /\ pc = "inicio"
    /\ archivo = "ok"
    /\ secreto = TRUE
    /\ base_de_conocimiento = None
    /\ prompt_usuario = None
    /\ contexto_rag = None
    /\ historial_para_api = None
    /\ respuesta_bot = None
    /\ error_mostrado = FALSE
    /\ llamadas = 0

\* A run of main that ends in st.stop(): the knowledge file or the secret is missing.
MainDetenido(a, s) ==
    /\ EntreEjecuciones
    /\ Detenido(a, s)
    /\ archivo' = a
    /\ secreto' = s
    /\ base_de_conocimiento' = cargar_base_de_conocimiento(a)
    /\ prompt_usuario' = None
    /\ contexto_rag' = None
    /\ historial_para_api' = None
    /\ respuesta_bot' = None
    /\ error_mostrado' = FALSE
    /\ pc' = "detenido"
    /\ UNCHANGED <<session_state, llamadas>>

\* A run of main in which st.chat_input returns None (page load, widget change).
MainSinEntrada(a, s) ==
    /\ EntreEjecuciones
    /\ ~Detenido(a, s)
    /\ archivo' = a
    /\ secreto' = s
    /\ base_de_conocimiento' = cargar_base_de_conocimiento(a)
    /\ session_state' = Inicializar(session_state)
    /\ prompt_usuario' = None
    /\ contexto_rag' = None
    /\ historial_para_api' = None
    /\ respuesta_bot' = None
    /\ error_mostrado' = FALSE
    /\ pc' = "esperando"
    /\ UNCHANGED llamadas

\* A run of main in which st.chat_input returns p, up to the request of line 69.
MainEnvio(a, s, p) ==
    /\ pc = "esperando"
    /\ Turnos(session_state) < MaxTurnos
    /\ ~Detenido(a, s)
    /\ archivo' = a
    /\ secreto' = s
    /\ base_de_conocimiento' = cargar_base_de_conocimiento(a)
    /\ LET ss == Inicializar(session_state)
           ms == AgregarUsuario(ss.mensajes, p)
           contexto == buscar_contexto_relevante(p, cargar_base_de_conocimiento(a))
       IN  /\ session_state' = [ss EXCEPT !.mensajes = ms]
           /\ contexto_rag' = Some(contexto)
           /\ historial_para_api' = Some(Historial(ms, contexto))
    /\ prompt_usuario' = Some(p)
    /\ respuesta_bot' = None
    /\ error_mostrado' = FALSE
    /\ llamadas' = llamadas + 1
    /\ pc' = "pensando"

\* The return of the call with a retry of the request when it raised
RespuestaReintenta(falla, r) ==
    /\ pc = "pensando"
    /\ LET devuelto == IF falla THEN None ELSE Some(r)
       IN  /\ respuesta_bot' = devuelto
           /\ session_state' =
                [session_state EXCEPT !.mensajes = AgregarRespuesta(@, devuelto)]
    /\ error_mostrado' = falla
    /\ pc' = IF falla THEN "pensando" ELSE "esperando"
    /\ llamadas' = IF falla THEN llamadas + 1 ELSE llamadas
    /\ UNCHANGED <<archivo, secreto, base_de_conocimiento, prompt_usuario,
                   contexto_rag, historial_para_api>>

\* The call of line 69 returns the text r, or raises (falla); main runs to its end.
Respuesta(falla, r) ==
    /\ pc = "pensando"
    /\ LET devuelto == IF falla THEN None ELSE Some(r)
       IN  /\ respuesta_bot' = devuelto
           /\ session_state' =
                [session_state EXCEPT !.mensajes = AgregarRespuesta(@, devuelto)]
    /\ error_mostrado' = falla
    /\ pc' = "esperando"
    /\ UNCHANGED <<archivo, secreto, base_de_conocimiento, prompt_usuario,
                   contexto_rag, historial_para_api, llamadas>>

Next ==
    \/ \E a \in Archivos, s \in BOOLEAN : MainDetenido(a, s)
    \/ \E a \in Archivos, s \in BOOLEAN : MainSinEntrada(a, s)
    \/ \E a \in Archivos, s \in BOOLEAN, p \in Prompts : MainEnvio(a, s, p)
    \/ \E r \in Respuestas : Respuesta(FALSE, r)
    \/ Respuesta(TRUE, << >>)

Spec == Init /\ [][Next]_vars

-----------------------------------------------------------------------------
(* The retriever on its own: buscar_contexto_relevante applied to a query  *)
(* and a mapping drawn from bounded sets.                                  *)

Alfabeto == {"a", "A", "b"}
Keywords == { << >>, <<"a">>, <<"A">>, <<"b">>, <<"a", "b">>, INSTITUTO }
Contents == { <<"x">>, <<"y">> }
Items == [keyword : Keywords, content : Contents]

Cadenas(n) == UNION { [1..m -> Alfabeto] : m \in 0..n }
Queries ==
    Cadenas(MaxQueryLen)
        \cup { <<"I", "n", "s", "t", "i", "t", "u", "t", "o">>,
               <<"a", " ">> \o INSTITUTO }

\* a JSON object: items in file order, no keyword twice
KBs ==
    UNION { { kb \in [1..n -> Items] :
                \A i, j \in 1..n : kb[i].keyword = kb[j].keyword => i = j } :
            n \in 0..MaxKeys }

InitBuscar ==
    /\ session_state = << >>
    /\ pc = "buscar"
    /\ archivo = "ok"
    /\ secreto = TRUE
    /\ base_de_conocimiento \in { Some(kb) : kb \in KBs }
    /\ prompt_usuario \in { Some(q) : q \in Queries }
    /\ contexto_rag = None
    /\ historial_para_api = None
    /\ respuesta_bot = None
    /\ error_mostrado = FALSE
    /\ llamadas = 0

Buscar ==
    /\ pc = "buscar"
    /\ contexto_rag' =
          Some(buscar_contexto_relevante(Val(prompt_usuario), base_de_conocimiento))
    /\ pc' = "hecho"
    /\ UNCHANGED <<session_state, archivo, secreto, base_de_conocimiento, prompt_usuario,
                   historial_para_api, respuesta_bot, error_mostrado, llamadas>>

NextBuscar == Buscar

SpecBuscar == InitBuscar /\ [][NextBuscar]_vars

-----------------------------------------------------------------------------
(* Properties of the chat session, checked under Spec *)

Mensajes(ss) == IF "mensajes" \in DOMAIN ss THEN ss.mensajes ELSE << >>
EsPrefijo(s, t) == Len(s) <= Len(t) /\ SubSeq(t, 1, Len(s)) = s
Entradas(ms) == SelectSeq(ms, LAMBDA m : m.role \in {"user", "assistant"})
Min(a, b) == IF a <= b THEN a ELSE b
MensajeUsuario(p) == [role |-> "user", content |-> p]
MensajeAsistente(t) == [role |-> "assistant", content |-> t]

\* C1: the payload handed to generar_respuesta_modelo holds exactly one system
\* entry, which is its first entry, and at most 10 other entries.
C1_PayloadAcotado ==
    historial_para_api # None =>
        LET h == Val(historial_para_api)
        IN  /\ Len(h) >= 1
            /\ h[1].role = "system"
            /\ \A i \in 2..Len(h) : h[i].role # "system"
            /\ Len(h) - 1 <= 10

\* a request is in flight whose payload is full while the transcript is longer
C1_Witness ==
    /\ pc = "pensando"
    /\ Len(Val(historial_para_api)) = 11
    /\ Len(Mensajes(session_state)) > 11
    /\ error_mostrado = FALSE

\* C2: when the call fails, the turn added the user message to the transcript
\* and nothing else, and the session is awaiting input again: a submission is
\* accepted.
C2_FalloDejaSoloUsuario ==
    /\ [][ /\ (pc = "esperando" /\ pc' = "pensando") =>
                Mensajes(session_state') =
                    Append(Mensajes(session_state), MensajeUsuario(Val(prompt_usuario')))
           /\ (pc = "pensando" /\ error_mostrado') =>
                /\ Mensajes(session_state') = Mensajes(session_state)
                /\ respuesta_bot' = None
                /\ pc' = "esperando" ]_vars
    /\ [](pc = "esperando" /\ error_mostrado /\ Turnos(session_state) < MaxTurnos =>
            ENABLED (\E p \in Prompts : MainEnvio("ok", TRUE, p)))

\* a turn has failed: the transcript ends with the dangling user message
C2_Witness ==
    /\ pc = "esperando"
    /\ error_mostrado
    /\ Len(Mensajes(session_state)) >= 3
    /\ Mensajes(session_state)[Len(Mensajes(session_state))] =
          MensajeUsuario(Val(prompt_usuario))
    /\ Mensajes(session_state)[Len(Mensajes(session_state)) - 1].role = "assistant"

\* C3: whenever the call returns a text, whatever the text (the empty string
\* too), the text is appended to the transcript as one assistant message
\* right after the submitted user message.
C3_ExitoAgregaAsistente ==
    [][ (pc = "pensando" /\ ~error_mostrado') =>
            /\ respuesta_bot' # None
            /\ Mensajes(session_state') =
                  Append(Mensajes(session_state), MensajeAsistente(Val(respuesta_bot')))
            /\ Mensajes(session_state)[Len(Mensajes(session_state))] =
                  MensajeUsuario(Val(prompt_usuario)) ]_vars

\* C7: a run that finds the knowledge file missing or malformed, or the
\* credential absent, stops before input: it appends nothing to the transcript,
\* runs no retrieval, and sends no request.
C7_ErrorDeConfiguracionDetiene ==
    /\ [][ (archivo' # "ok" \/ ~secreto') =>
              /\ session_state' = session_state
              /\ llamadas' = llamadas
              /\ pc' = "detenido" ]_vars
    /\ []((archivo # "ok" \/ ~secreto) =>
              /\ pc = "detenido"
              /\ prompt_usuario = None
              /\ contexto_rag = None
              /\ historial_para_api = None)

\* the configuration broke in the middle of a conversation
C7_Witness ==
    /\ pc = "detenido"
    /\ archivo = "invalido"
    /\ secreto = TRUE
    /\ Turnos(session_state) >= 1
    /\ llamadas >= 1

\* C8: the transcript only grows at its end, and building the payload window
\* leaves the stored transcript alone, also beyond 10 entries.
C8_SoloAgrega ==
    [][ /\ EsPrefijo(Mensajes(session_state), Mensajes(session_state'))
        /\ Len(Mensajes(session_state')) <= Len(Mensajes(session_state)) + 1
        /\ pc' = "pensando" =>
              Mensajes(session_state') =
                  Append(Mensajes(session_state), MensajeUsuario(Val(prompt_usuario'))) ]_vars

\* a payload was cut to the window and the stored transcript is longer
C8_Witness ==
    /\ pc = "esperando"
    /\ historial_para_api # None
    /\ Len(Mensajes(session_state)) >= 13
    /\ Len(Val(historial_para_api)) = 11

\* C9: a submission takes the session from awaiting input to awaiting the
\* model and sends one request; the return of the call, success or failure,
\* takes it back to awaiting input and sends nothing; requests and submissions
\* stay equal in number.
C9_UnaLlamadaPorEnvio ==
    /\ [][ /\ pc = "pensando" => (pc' = "esperando" /\ llamadas' = llamadas)
           /\ Turnos(session_state') # Turnos(session_state) =>
                 /\ pc = "esperando" /\ pc' = "pensando"
                 /\ Turnos(session_state') = Turnos(session_state) + 1
                 /\ llamadas' = llamadas + 1
           /\ llamadas' # llamadas => Turnos(session_state') = Turnos(session_state) + 1
           /\ pc' = "pensando" => pc = "esperando" ]_vars
    /\ [](/\ llamadas = Turnos(session_state)
          /\ pc \in {"inicio", "detenido", "esperando", "pensando"}
          /\ pc = "pensando" => (historial_para_api # None /\ respuesta_bot = None))

\* a failed turn was followed by a new submission, and that one is in flight
C9_Witness ==
    /\ pc = "pensando"
    /\ llamadas = 3
    /\ Turnos(session_state) = 3
    /\ LET ms == Mensajes(session_state)
       IN  ms[Len(ms) - 1].role = "user"

\* C10: while the request of a turn is in flight (the transcript then holds the
\* new user message), after the system message the payload holds the last min(10, n) of the
\* n non-system transcript entries, in stored order, and it ends with the user
\* message of this turn.
C10_VentanaUltimos ==
    pc = "pensando" =>
        LET h  == Val(historial_para_api)
            ns == Entradas(Mensajes(session_state))
            n  == Len(ns)
            k  == Min(10, n)
        IN  /\ Len(h) = k + 1
            /\ \A j \in 1..k : h[j + 1] = ns[n - k + j]
            /\ h[Len(h)] = MensajeUsuario(Val(prompt_usuario))

\* earlier turns failed, the window is full and the transcript is longer
C10_Witness ==
    /\ pc = "pensando"
    /\ LET ms == Mensajes(session_state)
           h  == Val(historial_para_api)
       IN  /\ Len(ms) >= 12
           /\ Len(h) = 11
           /\ ms[Len(ms) - 1].role = "user"
           /\ h[2] = ms[Len(ms) - 9]

-----------------------------------------------------------------------------
(* Properties of the retriever, checked under SpecBuscar *)

Consulta == Val(prompt_usuario)
Mapa == Val(base_de_conocimiento)
Resultado == Val(contexto_rag)

\* k occurs in s at offset d
OcurreEn(k, s, d) == d + Len(k) <= Len(s) /\ \A j \in 1..Len(k) : s[d + j] = k[j]
Ocurre(k, s) == \E d \in 0..Len(s) : OcurreEn(k, s, d)
Minusculas(s) == [i \in 1..Len(s) |-> IF s[i] = "A" THEN "a"
                                      ELSE IF s[i] = "B" THEN "b"
                                      ELSE IF s[i] = "I" THEN "i" ELSE s[i]]
Coincide(i) == Ocurre(Mapa[i].keyword, Minusculas(Consulta))

\* C4 as claimed: a keyword that occurs in the query as stored, whatever its
\* letter case, has its line "- {text}\n" in the returned string.
C4_ClaveEnConsulta ==
    pc = "hecho" =>
        \A i \in 1..Len(Mapa) :
            Ocurre(Mapa[i].keyword, Consulta) => Ocurre(Linea(Mapa[i].content), Resultado)

\* C4 as amended: a keyword that occurs, as stored, in the lowercased query has
\* its line "- {text}\n" in the returned string.
C4_ClaveEnConsultaMinuscula ==
    pc = "hecho" =>
        \A i \in 1..Len(Mapa) :
            Coincide(i) => Ocurre(Linea(Mapa[i].content), Resultado)

\* two keywords match, the second only through the lowercasing of the query
C4_Witness ==
    /\ pc = "hecho"
    /\ Len(Mapa) = 2
    /\ Mapa[1].keyword = <<"b">> /\ Mapa[1].content = <<"y">>
    /\ Mapa[2].keyword = <<"a">> /\ Mapa[2].content = <<"x">>
    /\ Consulta = <<"A", "b">>
    /\ Ocurre(Linea(<<"x">>), Resultado)
    /\ Ocurre(Linea(<<"y">>), Resultado)

\* C5: when no key occurs in the lowercased query, the result is the bare text
\* stored under "instituto" if that key exists, and the fixed string if not.
C5_SinCoincidencia ==
    (pc = "hecho" /\ \A i \in 1..Len(Mapa) : ~Coincide(i)) =>
        IF \E i \in 1..Len(Mapa) : Mapa[i].keyword = INSTITUTO
        THEN \E i \in 1..Len(Mapa) :
                Mapa[i].keyword = INSTITUTO /\ Resultado = Mapa[i].content
        ELSE Resultado = NO_CONTEXTO

\* no key matches and the fallback entry, stored second, is returned bare
C5_Witness ==
    /\ pc = "hecho"
    /\ Len(Mapa) = 2
    /\ Mapa[1].keyword = <<"a", "b">>
    /\ Mapa[2].keyword = INSTITUTO
    /\ Consulta = <<"b", "A">>
    /\ Resultado = Mapa[2].content

\* length of the lines of the matching entries stored before entry i
RECURSIVE Desplazamiento(_)
Desplazamiento(i) ==
    IF i <= 1 THEN 0
    ELSE Desplazamiento(i - 1)
            + (IF Coincide(i - 1) THEN Len(Linea(Mapa[i - 1].content)) ELSE 0)

\* C6: when some key matches, the result is made of one line per matching
\* entry, the lines standing in the order of the mapping: the line of a
\* matching entry starts where the lines of the matching entries stored
\* before it end, wherever the keys occur in the query.
C6_OrdenDelMapa ==
    (pc = "hecho" /\ \E i \in 1..Len(Mapa) : Coincide(i)) =>
        /\ Len(Resultado) = Desplazamiento(Len(Mapa) + 1)
        /\ \A i \in 1..Len(Mapa) :
              Coincide(i) => OcurreEn(Linea(Mapa[i].content), Resultado, Desplazamiento(i))

\* the key stored first occurs in the query after the key stored second
C6_Witness ==
    /\ pc = "hecho"
    /\ Len(Mapa) = 2
    /\ Mapa[1].keyword = <<"a">> /\ Mapa[1].content = <<"x">>
    /\ Mapa[2].keyword = <<"b">> /\ Mapa[2].content = <<"y">>
    /\ Consulta = <<"b", "A">>
    /\ Resultado = <<"-", " ", "x", "\n", "-", " ", "y", "\n">>

====
